---- MODULE Spec2Model ----
(***************************************************************************)
(* ps2isopatcher: the mutable image (Ps2Iso opened with mutable=True), its *)
(* directory tables, the tree parsed from them at open, the block          *)
(* allocator and replace_files.                                            *)
(*                                                                         *)
(* The byte store `data` holds the image from byte address Base onward:    *)
(* data[k] is the byte at address Base + k - 1.  The bytes below Base      *)
(* (system area, volume descriptor, path tables) are read at open only and *)
(* no operation modelled here writes below the lowest directory table.     *)
(* Strings (names, paths) are sequences of byte values.                    *)
(***************************************************************************)
EXTENDS Integers, Sequences, FiniteSets, TLC

VARIABLES
    data,     \* Ps2Iso.data, the mutable byte store
    tree,     \* Ps2Iso._tree, built once at open
    setIter,  \* the order in which this process iterates set(lba_list)
    call,     \* the last call and its arguments
    result,   \* the exception the last call ended with, "" for none
    latest,   \* per path, the content last supplied by a successful call
    pc,       \* position inside a replace_files call ("idle" outside)
    items,    \* replace_files' local list `items`
    phase,    \* how many items have been cleared, written, updated
    ncalls    \* calls made on the handle so far

vars ==
    <<data, tree, setIter, call, result, latest, pc, items, phase, ncalls>>

---------------------------------------------------------------------------
(* Program constants *)

PVD_OFFSET == 32768
PVD_LENGTH == 2048
\* Ps2Iso.block_size, read from the volume descriptor of the image
BlockSize == 140

(* Bounds of the model *)
\* calls made on one handle
MaxCalls == 2
\* path-table entries of an image besides the root
MaxDirs == 3

\* first block past the volume descriptor, and the address data[1] stands for
FirstBlock == (PVD_OFFSET + PVD_LENGTH + BlockSize - 1) \div BlockSize
Base == FirstBlock * BlockSize

---------------------------------------------------------------------------
(* bytes and integers *)

Zeros(n) == [k \in 1..n |-> 0]
Fill(n, b) == [k \in 1..n |-> b]

Min(a, b) == IF a < b THEN a ELSE b

\* Python's s[a:b] on a bytes value, 0-based, 0 <= a, clamped to the length
Slice(s, a, b) ==
    LET lo == Min(a, Len(s))
        hi == Min(b, Len(s))
    IN IF hi <= lo THEN <<>> ELSE SubSeq(s, lo + 1, hi)

\* self.data[a:b] on the store
Read(d, a, b) == Slice(d, a - Base, b - Base)

DataLen(d) == Base + Len(d)

RECURSIVE from_bytes_little(_)
from_bytes_little(s) ==
    IF s = <<>> THEN 0 ELSE s[1] + 256 * from_bytes_little(Tail(s))

RECURSIVE from_bytes_big(_)
from_bytes_big(s) ==
    IF s = <<>> THEN 0
    ELSE s[Len(s)] + 256 * from_bytes_big(SubSeq(s, 1, Len(s) - 1))

to_bytes_little(val) ==
    <<val % 256, (val \div 256) % 256, (val \div 65536) % 256,
      (val \div 16777216) % 256>>

to_bytes_big(val) ==
    <<(val \div 16777216) % 256, (val \div 65536) % 256,
      (val \div 256) % 256, val % 256>>

both_endian_int(val) == to_bytes_little(val) \o to_bytes_big(val)

\* str.strip(): the ASCII code points str.isspace() accepts
IsSpace(b) == b \in {9, 10, 11, 12, 13, 28, 29, 30, 31, 32}

RECURSIVE lstrip(_)
lstrip(s) == IF s # <<>> /\ IsSpace(s[1]) THEN lstrip(Tail(s)) ELSE s

RECURSIVE rstrip(_)
rstrip(s) ==
    IF s # <<>> /\ IsSpace(s[Len(s)]) THEN rstrip(SubSeq(s, 1, Len(s) - 1))
    ELSE s

strip(s) == rstrip(lstrip(s))

blocks_required(size) == (size + BlockSize - 1) \div BlockSize

---------------------------------------------------------------------------
(* Ps2Iso.overwrite and clear_blocks *)

\* a store that grows by the missing bytes only
overwrite_exact_fit(d, bytes, addr) ==
    LET end_addr == addr + Len(bytes)
        diff == end_addr - DataLen(d)
        ext == IF diff > 0 THEN d \o Zeros(diff) ELSE d
    IN SubSeq(ext, 1, addr - Base) \o bytes
       \o SubSeq(ext, end_addr - Base + 1, Len(ext))

overwrite(d, bytes, addr) ==
    LET end_addr == addr + Len(bytes)
        diff == end_addr - DataLen(d)
        ext == IF diff > 0
               THEN d \o Zeros(blocks_required(diff) * BlockSize)
               ELSE d
    \* self.data[addr:addr + len(data)] = data
    IN SubSeq(ext, 1, addr - Base) \o bytes
       \o SubSeq(ext, end_addr - Base + 1, Len(ext))

clear_blocks(d, start_block, num_blocks) ==
    overwrite(d, Zeros(num_blocks * BlockSize), start_block * BlockSize)

---------------------------------------------------------------------------
(* DirTable *)

tbl_data(d, dt_addr) == Read(d, dt_addr, dt_addr + BlockSize)

dt_get_lba(entry) == from_bytes_little(Slice(entry, 2, 6))
dt_get_size(entry) == from_bytes_little(Slice(entry, 10, 14))
dt_get_name_length(entry) == from_bytes_little(Slice(entry, 32, 33))
dt_get_name(entry, length) == strip(Slice(entry, 33, 33 + length))

RECURSIVE get_entries_from(_, _)
get_entries_from(tbl, i) ==
    LET total_len == from_bytes_big(Slice(tbl, i, i + 1))
        entry == Slice(tbl, i, i + total_len)
    IN IF total_len = 0 THEN <<>>
       ELSE <<[name |-> dt_get_name(entry, dt_get_name_length(entry)),
               size |-> dt_get_size(entry),
               lba |-> dt_get_lba(entry)]>>
            \o get_entries_from(tbl, i + total_len)

get_entries(d, dt_addr) == get_entries_from(tbl_data(d, dt_addr), 0)

\* lines 225-226: where the fields of the record at iso_offset are
lba_offset(iso_offset) == iso_offset + 2

\* a size written two bytes too far
size_offset_shifted(iso_offset) == iso_offset + 12

size_offset(iso_offset) == iso_offset + 10

\* DirTable.set_entry: the store after the call, and the exception it ends
\* with ("" when it returns normally)
RECURSIVE set_entry_from(_, _, _, _, _, _)
set_entry_from(d, dt_addr, idx, name, lba, size) ==
    LET tbl == tbl_data(d, dt_addr)
    IN IF idx >= Len(tbl) THEN [data |-> d, err |-> "IndexError"]
       ELSE LET total_len == tbl[idx + 1]
                entry == Slice(tbl, idx, idx + total_len)
                n == dt_get_name(entry, dt_get_name_length(entry))
                iso_offset == idx + dt_addr
            IN IF total_len = 0 THEN [data |-> d, err |-> ""]
               ELSE IF n = name
               THEN [data |-> overwrite(
                                overwrite(d, both_endian_int(lba),
                                          lba_offset(iso_offset)),
                                both_endian_int(size), size_offset(iso_offset)),
                     err |-> ""]
               ELSE set_entry_from(d, dt_addr, idx + total_len, name, lba, size)

set_entry(d, dt_addr, name, lba, size) ==
    set_entry_from(d, dt_addr, 0, name, lba, size)

---------------------------------------------------------------------------
(* The tree: a sequence of nodes in the order _get_lba_list visits them;  *)
(* a node's parent is an index into the sequence (0: no parent).          *)

Range(s) == {s[k] : k \in 1..Len(s)}

FolderNode(entry, parent) ==
    [kind |-> "folder", name |-> entry.name, lba |-> entry.lba, size |-> 0,
     parent |-> parent, id |-> entry.dir_id]

TreeFile(entry, parent) ==
    [kind |-> "file", name |-> entry.name, lba |-> entry.lba,
     size |-> entry.size, parent |-> parent, id |-> 0]

\* list.remove(c): drops the first element equal to c
RECURSIVE list_remove(_, _)
list_remove(s, c) ==
    IF s = <<>> THEN <<>>
    ELSE IF s[1] = c THEN Tail(s)
    ELSE <<s[1]>> \o list_remove(Tail(s), c)

RECURSIVE list_remove_all(_, _)
list_remove_all(s, cs) ==
    IF cs = <<>> THEN s ELSE list_remove_all(list_remove(s, cs[1]), Tail(cs))

\* TreeFolder.__init__: the nodes of the folder's subtree (the folder first,
\* then its sub-folders' subtrees, then its files) and what is left of the
\* shared pool of path-table entries.  self_idx is the folder's own index.
RECURSIVE TreeFolder(_, _, _, _, _)
RECURSIVE TreeFolderSubs(_, _, _, _, _)
TreeFolder(d, entry, parent, children, self_idx) ==
    LET IsDirect(x) == x.parent_dir_id = entry.dir_id
        direct_children == SelectSeq(children, IsDirect)
        pool == list_remove_all(children, direct_children)
        subs == TreeFolderSubs(d, direct_children, self_idx, pool, self_idx + 1)
        file_entries == get_entries(d, entry.lba * BlockSize)
        files == SubSeq(file_entries, 3, Len(file_entries))
    IN [nodes |-> <<FolderNode(entry, parent)>> \o subs.nodes
                  \o [k \in 1..Len(files) |-> TreeFile(files[k], self_idx)],
        children |-> subs.children]

TreeFolderSubs(d, direct, parent, children, next_idx) ==
    IF direct = <<>> THEN [nodes |-> <<>>, children |-> children]
    ELSE LET first == TreeFolder(d, direct[1], parent, children, next_idx)
             rest == TreeFolderSubs(d, Tail(direct), parent, first.children,
                                    next_idx + Len(first.nodes))
         IN [nodes |-> first.nodes \o rest.nodes, children |-> rest.children]

\* the root entry left in the pool of children
get_path_tree_keep_root(d, paths) == TreeFolder(d, paths[1], 0, paths, 1).nodes

\* PathTables.get_path_tree on the decoded path-table entries
get_path_tree(d, paths) == TreeFolder(d, paths[1], 0, Tail(paths), 1).nodes

Slash == 47

RECURSIVE path(_, _)
path(t, i) ==
    IF t[i].parent = 0 THEN <<>>
    ELSE path(t, t[i].parent) \o <<Slash>> \o t[i].name

\* TreeFolder.children, as indices
children_of(t, i) ==
    SelectSeq([k \in 1..Len(t) |-> k], LAMBDA k : t[k].parent = i)

\* TreeFolder.get_child: index of the first child with that name, 0 for
\* StopIteration
get_child(t, i, name) ==
    LET hits == SelectSeq(children_of(t, i), LAMBDA k : t[k].name = name)
    IN IF hits = <<>> THEN 0 ELSE hits[1]

\* str.split("/")
RECURSIVE split(_)
split(s) ==
    IF \A k \in 1..Len(s) : s[k] # Slash THEN <<s>>
    ELSE LET k == CHOOSE j \in 1..Len(s) :
                     s[j] = Slash /\ \A h \in 1..(j - 1) : s[h] # Slash
         IN <<SubSeq(s, 1, k - 1)>> \o split(SubSeq(s, k + 1, Len(s)))

RECURSIVE walk(_, _, _)
walk(t, mark, paths) ==
    IF paths = <<>> THEN [ok |-> TRUE, val |-> mark, err |-> ""]
    ELSE IF t[mark].kind # "folder"
    THEN [ok |-> FALSE, val |-> 0, err |-> "AttributeError"]
    ELSE LET c == get_child(t, mark, paths[1])
         IN IF c = 0 THEN [ok |-> FALSE, val |-> 0, err |-> "StopIteration"]
            ELSE walk(t, c, Tail(paths))

\* Ps2Iso.get_object: the index of the node
get_object(t, p) ==
    LET paths == split(p)
    IN walk(t, 1, IF paths[1] = <<>> THEN Tail(paths) ELSE paths)

get_lba(t, p) ==
    LET o == get_object(t, p)
    IN IF o.ok THEN [ok |-> TRUE, val |-> t[o.val].lba, err |-> ""] ELSE o

\* TreeFile.data
file_data(d, t, i) ==
    Read(d, t[i].lba * BlockSize, t[i].lba * BlockSize + t[i].size)

---------------------------------------------------------------------------
(* Block allocator *)

RECURSIVE _get_lba_list(_, _)
RECURSIVE _get_lba_list_each(_, _)
_get_lba_list(t, item) ==
    <<[lba |-> t[item].lba, path |-> path(t, item)]>>
    \o (IF t[item].kind = "folder"
        THEN _get_lba_list_each(t, children_of(t, item))
        ELSE <<>>)

_get_lba_list_each(t, cs) ==
    IF cs = <<>> THEN <<>>
    ELSE _get_lba_list(t, cs[1]) \o _get_lba_list_each(t, Tail(cs))

\* sorted(xs, key=lambda x: x[0]): stable, by insertion from the right
RECURSIVE insert_sorted(_, _)
insert_sorted(x, s) ==
    IF s = <<>> \/ x.lba <= s[1].lba THEN <<x>> \o s
    ELSE <<s[1]>> \o insert_sorted(x, Tail(s))

RECURSIVE sorted_by_lba(_)
sorted_by_lba(xs) ==
    IF xs = <<>> THEN <<>> ELSE insert_sorted(xs[1], sorted_by_lba(Tail(xs)))

\* list(set(lba_list)): the distinct pairs, in the iteration order `si` that
\* the hash set of this process gives them
list_set(lba_list, si) == SelectSeq(si, LAMBDA x : x \in Range(lba_list))

get_lba_list(t, si) == sorted_by_lba(list_set(_get_lba_list(t, 1), si))

get_blocks_allocated(d, t, si, p) ==
    LET lba_list == get_lba_list(t, si)
        hits == SelectSeq([k \in 1..Len(lba_list) |-> k],
                          LAMBDA k : lba_list[k].path = p)
    IN IF hits = <<>> THEN [ok |-> FALSE, val |-> 0, err |-> "StopIteration"]
       ELSE LET obj_idx == hits[1]
                lba == lba_list[obj_idx].lba
            IN IF obj_idx + 1 <= Len(lba_list)
               THEN [ok |-> TRUE, val |-> lba_list[obj_idx + 1].lba - lba,
                     err |-> ""]
               ELSE LET obj == get_object(t, p)
                    IN IF ~obj.ok THEN obj
                       ELSE IF t[obj.val].kind # "file"
                       THEN [ok |-> FALSE, val |-> 0, err |-> "AttributeError"]
                       ELSE [ok |-> TRUE,
                             val |-> blocks_required(
                                         Len(file_data(d, t, obj.val))),
                             err |-> ""]

get_next_free_block(d, t, si) ==
    LET lba_list == get_lba_list(t, si)
        last == lba_list[Len(lba_list)]
        num_blocks == get_blocks_allocated(d, t, si, last.path)
    IN IF num_blocks.ok
       THEN [ok |-> TRUE, val |-> last.lba + num_blocks.val, err |-> ""]
       ELSE num_blocks

---------------------------------------------------------------------------
(* Ps2Iso.replace_files *)

NoErr(v) == [ok |-> TRUE, val |-> v, err |-> ""]

\* lines 430-447: the list `items`, or the exception a lookup raises
first_err(rs) ==
    LET bad == SelectSeq(rs, LAMBDA r : ~r.ok)
    IN IF bad = <<>> THEN "" ELSE bad[1].err

prepare(d, t, si, replacements) ==
    LET curr_lba == [k \in 1..Len(replacements) |->
                        get_lba(t, replacements[k].path)]
        curr_blocks_allocated ==
            [k \in 1..Len(replacements) |->
                get_blocks_allocated(d, t, si, replacements[k].path)]
        err == first_err(curr_lba \o curr_blocks_allocated)
    IN IF err # "" THEN [ok |-> FALSE, val |-> <<>>, err |-> err]
       ELSE NoErr([k \in 1..Len(replacements) |->
                    [path |-> replacements[k].path,
                     bin |-> replacements[k].bin,
                     size |-> Len(replacements[k].bin),
                     blocks_required |->
                         blocks_required(Len(replacements[k].bin)),
                     curr_lba |-> curr_lba[k].val,
                     curr_blocks_allocated |-> curr_blocks_allocated[k].val]])

\* a pre-check that looks at the first item only
overflows_first_only(its) ==
    SelectSeq(SubSeq(its, 1, 1),
              LAMBDA i : i.blocks_required > i.curr_blocks_allocated)

overflows(its) ==
    SelectSeq(its, LAMBDA i : i.blocks_required > i.curr_blocks_allocated)

\* lines 462-465, for one item and for all
clear_item(d, i) == clear_blocks(d, i.curr_lba, i.curr_blocks_allocated)

RECURSIVE clear_all(_, _)
clear_all(d, its) ==
    IF its = <<>> THEN d ELSE clear_all(clear_item(d, its[1]), Tail(its))

\* a relocation that never leaves the current LBA
new_lba_in_place(d, t, si, i, allow_move) == NoErr(i.curr_lba)

\* lines 468 and 481: where the item's new content goes
new_lba(d, t, si, i, allow_move) ==
    IF allow_move THEN get_next_free_block(d, t, si) ELSE NoErr(i.curr_lba)

\* lines 469-470 and 482-483
write_item(d, i, lba) == overwrite(d, i.bin, lba * BlockSize)

\* Ps2Iso.update_toc and TreeObject.update_toc
update_toc(d, t, p, lba, size) ==
    LET obj == get_object(t, p)
    IN IF ~obj.ok THEN [data |-> d, err |-> obj.err]
       ELSE IF t[obj.val].parent = 0
       THEN [data |-> d, err |-> "AttributeError"]
       ELSE set_entry(d, t[t[obj.val].parent].lba * BlockSize,
                      t[obj.val].name, lba, size)

\* the body of the loops at lines 467-471 and 480-484
replace_item(d, t, si, i, allow_move) ==
    LET lba == new_lba(d, t, si, i, allow_move)
    IN IF ~lba.ok THEN [data |-> d, err |-> lba.err]
       ELSE update_toc(write_item(d, i, lba.val), t, i.path, lba.val, i.size)

RECURSIVE replace_all(_, _, _, _, _)
replace_all(d, t, si, its, allow_move) ==
    IF its = <<>> THEN [data |-> d, err |-> ""]
    ELSE LET r == replace_item(d, t, si, its[1], allow_move)
         IN IF r.err # "" THEN r
            ELSE replace_all(r.data, t, si, Tail(its), allow_move)

replace_files(d, t, si, replacements, allow_move) ==
    LET p == prepare(d, t, si, replacements)
    IN IF ~p.ok THEN [data |-> d, err |-> p.err]
       ELSE IF overflows(p.val) # <<>> /\ ~allow_move
       THEN [data |-> d, err |-> "ValueError"]
       ELSE replace_all(clear_all(d, p.val), t, si, p.val, allow_move)

---------------------------------------------------------------------------
(* The images opened: a root directory, one sub-folder D, file A in the   *)
(* root and file B in D.  Block numbers of a layout count from FirstBlock.*)

NameA == <<65>>
NameB == <<66>>
NameD == <<68>>
NameSelf == <<0>>
NameParent == <<1>>

PathA == <<Slash>> \o NameA
PathB == <<Slash>> \o NameD \o <<Slash>> \o NameB
FilePaths == {PathA, PathB}

\* one directory record, laid out as get_entries and set_entry read it
DirRecord(lba, size, flags, name) ==
    LET pad == IF Len(name) % 2 = 0 THEN <<0>> ELSE <<>>
        total_len == 33 + Len(name) + Len(pad)
    IN <<total_len, 0>> \o both_endian_int(lba) \o both_endian_int(size)
       \o <<100, 1, 1, 0, 0, 0, 0>> \o <<flags, 0, 0>> \o <<1, 0, 0, 1>>
       \o <<Len(name)>> \o name \o pad

RootLba == FirstBlock
DLba == FirstBlock + 1

Layouts ==
    { [a_lba |-> 2, a_size |-> 5, b_lba |-> 3, b_size |-> 5, blocks |-> 4],
      [a_lba |-> 2, a_size |-> 5, b_lba |-> 4, b_size |-> BlockSize + 1,
       blocks |-> 6],
      [a_lba |-> 3, a_size |-> 5, b_lba |-> 2, b_size |-> BlockSize,
       blocks |-> 4],
      [a_lba |-> 2, a_size |-> 0, b_lba |-> 2, b_size |-> 5, blocks |-> 3] }

RootTable(l) ==
    DirRecord(RootLba, BlockSize, 2, NameSelf)
    \o DirRecord(RootLba, BlockSize, 2, NameParent)
    \o DirRecord(DLba, BlockSize, 2, NameD)
    \o DirRecord(FirstBlock + l.a_lba, l.a_size, 0, NameA)

DTable(l) ==
    DirRecord(DLba, BlockSize, 2, NameSelf)
    \o DirRecord(RootLba, BlockSize, 2, NameParent)
    \o DirRecord(FirstBlock + l.b_lba, l.b_size, 0, NameB)

\* the bytes read from the file at open, from Base on
Image(l) ==
    LET d0 == Zeros(l.blocks * BlockSize)
        d1 == overwrite(d0, RootTable(l), RootLba * BlockSize)
        d2 == overwrite(d1, DTable(l), DLba * BlockSize)
        d3 == overwrite(d2, Fill(l.a_size, 160),
                        (FirstBlock + l.a_lba) * BlockSize)
    IN overwrite(d3, Fill(l.b_size, 176), (FirstBlock + l.b_lba) * BlockSize)

\* what PathTable.get_entries decodes from the image's path table
PathEntries ==
    << [name |-> NameSelf, lba |-> RootLba, parent_dir_id |-> 1, dir_id |-> 1],
       [name |-> NameD, lba |-> DLba, parent_dir_id |-> 1, dir_id |-> 2] >>

RECURSIVE dedup(_)
dedup(s) ==
    IF s = <<>> THEN <<>>
    ELSE LET r == dedup(SubSeq(s, 1, Len(s) - 1))
         IN IF s[Len(s)] \in Range(r) THEN r ELSE r \o <<s[Len(s)]>>

Reverse(s) == [k \in 1..Len(s) |-> s[Len(s) + 1 - k]]

\* Iteration orders of set(lba_list).  The stable sort keeps only the
\* relative order of pairs with equal LBA, and no more than two pairs of an
\* image share an LBA, so an order and its reverse give every outcome; the
\* reverse is left out where it sorts to the same list.
SetOrders(t) ==
    LET l == dedup(_get_lba_list(t, 1))
    IN {s \in {l, Reverse(l)} :
          s = l \/ sorted_by_lba(s) # sorted_by_lba(l)}

---------------------------------------------------------------------------
(* Inputs of replace_files *)

\* new content that fits one block, and new content that needs two
ContentLens == {1, BlockSize + 1}

\* the new content of a path: its fill byte tells path and length apart
FillOf(p, n) == (IF p = PathA THEN 160 ELSE 176) + blocks_required(n)

Bin(c) == Fill(c.len, c.fill)

\* batches of distinct file paths
Batches ==
    { b \in UNION {[1..n -> FilePaths] : n \in 1..Cardinality(FilePaths)} :
        \A j, k \in 1..Len(b) : j < k => b[j] # b[k] }

\* the path as the caller writes it, with or without the leading slash
Written(p, slash) == IF slash THEN p ELSE Tail(p)

Replacements(c) ==
    [k \in 1..Len(c.replacements) |->
        [path |-> c.replacements[k].path, bin |-> Bin(c.replacements[k])]]

None == [len |-> -1, fill |-> 0]
Idle == [cleared |-> 0, written |-> 0, updated |-> 0, lba |-> 0]

Init ==
    /\ \E l \in Layouts : data = Image(l)
    /\ tree = get_path_tree(data, PathEntries)
    /\ setIter \in SetOrders(tree)
    /\ call = [op |-> "open", replacements |-> <<>>, allow_move |-> FALSE]
    /\ result = ""
    /\ latest = [p \in FilePaths |-> None]
    /\ pc = "idle"
    /\ items = <<>>
    /\ phase = Idle
    /\ ncalls = 0

CallOf(b, lens, am, slash) ==
    [op |-> "replace_files",
     replacements |-> [k \in 1..Len(b) |->
                         [path |-> Written(b[k], slash), len |-> lens[k],
                          fill |-> FillOf(b[k], lens[k])]],
     allow_move |-> am]

\* every batch with every content length, paths written with the leading
\* slash; and every single path written without it
Calls ==
    { CallOf(b, lens, am, TRUE) :
        b \in Batches,
        lens \in [1..Cardinality(FilePaths) -> ContentLens],
        am \in BOOLEAN }
    \cup { CallOf(<<p>>, <<1>>, am, FALSE) : p \in FilePaths, am \in BOOLEAN }

Record(c, late) ==
    [p \in FilePaths |->
        LET hits == SelectSeq(c.replacements, LAMBDA r : r.path = p)
        IN IF hits = <<>> THEN late[p]
           ELSE [len |-> hits[Len(hits)].len, fill |-> hits[Len(hits)].fill]]

\* one whole replace_files call
ReplaceFiles ==
    /\ pc = "idle"
    /\ ncalls < MaxCalls
    /\ ncalls' = ncalls + 1
    /\ \E c \in Calls :
         \E r \in {replace_files(data, tree, setIter, Replacements(c),
                                 c.allow_move)} :
            /\ data' = r.data
            /\ call' = c
            /\ result' = r.err
            /\ latest' = IF r.err = "" THEN Record(c, latest) ELSE latest
    /\ UNCHANGED <<tree, setIter, pc, items, phase>>

Next == ReplaceFiles

Spec == Init /\ [][Next]_vars

\* the same images, without those in which two paths share an LBA
InitNoShare ==
    /\ Init
    /\ \A j, k \in 1..Len(setIter) : j # k => setIter[j].lba # setIter[k].lba

SpecNoShare == InitNoShare /\ [][Next]_vars

---------------------------------------------------------------------------
(* The directory-table writer called on its own: DirTable.set_entry,       *)
(* Ps2Iso.update_toc and Ps2Iso.clear_blocks are public methods.           *)

NameX == <<88>>
PathD == <<Slash>> \o NameD
PathRoot == <<>>

LbaInputs == {16909060}
SizeInputs == {5, 168496141}

SetEntry ==
    /\ pc = "idle"
    /\ ncalls < MaxCalls
    /\ ncalls' = ncalls + 1
    /\ \E dt \in {RootLba, DLba}, name \in {NameA, NameB, NameD, NameX},
          lba \in LbaInputs, size \in SizeInputs :
         \E r \in {set_entry(data, dt * BlockSize, name, lba, size)} :
            /\ data' = r.data
            /\ call' = [op |-> "set_entry", dt_addr |-> dt * BlockSize,
                        name |-> name, lba |-> lba, size |-> size]
            /\ result' = r.err
    /\ UNCHANGED <<tree, setIter, latest, pc, items, phase>>

UpdateToc ==
    /\ pc = "idle"
    /\ ncalls < MaxCalls
    /\ ncalls' = ncalls + 1
    /\ \E p \in FilePaths \cup {PathD, PathRoot},
          lba \in LbaInputs, size \in SizeInputs :
         \E r \in {update_toc(data, tree, p, lba, size)} :
            /\ data' = r.data
            /\ call' = [op |-> "update_toc", path |-> p, lba |-> lba,
                        size |-> size]
            /\ result' = r.err
    /\ UNCHANGED <<tree, setIter, latest, pc, items, phase>>

ClearBlocks ==
    /\ pc = "idle"
    /\ ncalls < MaxCalls
    /\ ncalls' = ncalls + 1
    /\ \E start_block \in {RootLba, DLba} :
         /\ data' = clear_blocks(data, start_block, 1)
         /\ call' = [op |-> "clear_blocks", start_block |-> start_block,
                     num_blocks |-> 1]
         /\ result' = ""
    /\ UNCHANGED <<tree, setIter, latest, pc, items, phase>>

NextDir == SetEntry \/ UpdateToc \/ ClearBlocks

SpecDir == Init /\ [][NextDir]_vars

---------------------------------------------------------------------------
(* Ps2Iso.overwrite called on its own, on image files that end with a few  *)
(* bytes past their last whole block.                                      *)

TailLens == {0, 3}

InitTail ==
    /\ \E l \in Layouts, k \in TailLens : data = Image(l) \o Fill(k, 255)
    /\ tree = get_path_tree(data, PathEntries)
    /\ setIter \in SetOrders(tree)
    /\ call = [op |-> "open", replacements |-> <<>>, allow_move |-> FALSE]
    /\ result = ""
    /\ latest = [p \in FilePaths |-> None]
    /\ pc = "idle"
    /\ items = <<>>
    /\ phase = Idle
    /\ ncalls = 0

\* lengths of the bytes written: none, less than a block, more than a block
OverwriteLens == {0, 3, BlockSize + 1}

\* addresses inside the store, across its end, at its end and past its end
OverwriteAddrs(d) ==
    {Base, DataLen(d) - 2, DataLen(d), DataLen(d) + 1,
     DataLen(d) + BlockSize}

Overwrite ==
    /\ pc = "idle"
    /\ ncalls < MaxCalls
    /\ ncalls' = ncalls + 1
    /\ \E addr \in OverwriteAddrs(data), n \in OverwriteLens :
         /\ data' = overwrite(data, Fill(n, 9), addr)
         /\ call' = [op |-> "overwrite", bytes |-> Fill(n, 9), addr |-> addr]
         /\ result' = ""
    /\ UNCHANGED <<tree, setIter, latest, pc, items, phase>>

NextOverwrite == Overwrite

SpecOverwrite == InitTail /\ [][NextOverwrite]_vars

---------------------------------------------------------------------------
(* The tree built at open, on images with up to MaxDirs folders besides    *)
(* the root.  An image is given by the parent ordinal of each path-table   *)
(* entry after the root (any ordinal of the table, so that entries can     *)
(* precede their parent, or hang on themselves or on each other and never  *)
(* reach the root) and by the number of files each folder holds.  Names   *)
(* and LBAs fall as the ordinal rises.                                     *)

FileCounts == {0, 1, 2}

TreeInputs ==
    { [parents |-> p, files |-> f] :
        p \in UNION {[1..n -> 1..(n + 1)] : n \in 0..MaxDirs},
        f \in FileCounts }

TreeName(k) == IF k = 1 THEN NameSelf ELSE <<90 - k>>

TreeLba(inp, k) == FirstBlock + Len(inp.parents) + 1 - k

\* what PathTable.get_entries decodes: dir_id is the ordinal in the table
TreePathEntries(inp) ==
    [k \in 1..(Len(inp.parents) + 1) |->
        [name |-> TreeName(k), lba |-> TreeLba(inp, k),
         parent_dir_id |-> IF k = 1 THEN 1 ELSE inp.parents[k - 1],
         dir_id |-> k]]

\* records of one block of a directory table
RecordsPerBlock == BlockSize \div Len(DirRecord(0, 0, 0, NameSelf))

\* the records of the directory table of folder k: the two stubs, a record
\* for each sub-folder and one for each file, as far as one block holds them
TreeRecords(inp, k) ==
    LET n == Len(inp.parents)
        ents == TreePathEntries(inp)
        subs == SelectSeq(Tail(ents),
                          LAMBDA e : e.parent_dir_id = k /\ e.dir_id # k)
        stubs == << [lba |-> TreeLba(inp, k), size |-> BlockSize, flags |-> 2,
                     name |-> NameSelf],
                    [lba |-> TreeLba(inp, ents[k].parent_dir_id),
                     size |-> BlockSize, flags |-> 2, name |-> NameParent] >>
        subrecs == [j \in 1..Len(subs) |->
                      [lba |-> subs[j].lba, size |-> BlockSize, flags |-> 2,
                       name |-> subs[j].name]]
        filerecs == [j \in 1..inp.files |->
                       [lba |-> FirstBlock + n + 1 + 2 * (k - 1) + (j - 1),
                        size |-> 5, flags |-> 0, name |-> <<96 + 2 * k + j>>]]
        all == stubs \o subrecs \o filerecs
    IN SubSeq(all, 1, Min(Len(all), RecordsPerBlock))

RECURSIVE TreeTable(_)
TreeTable(recs) ==
    IF recs = <<>> THEN <<>>
    ELSE DirRecord(recs[1].lba, recs[1].size, recs[1].flags, recs[1].name)
         \o TreeTable(Tail(recs))

\* the image with the table and the files of folders k and above written
RECURSIVE TreeImageFrom(_, _)
TreeImageFrom(inp, k) ==
    LET n == Len(inp.parents)
    IN IF k > n + 1 THEN Zeros(3 * (n + 1) * BlockSize)
       ELSE LET d0 == TreeImageFrom(inp, k + 1)
                d1 == overwrite(d0, TreeTable(TreeRecords(inp, k)),
                                TreeLba(inp, k) * BlockSize)
                d2 == overwrite(d1, Fill(5, 160 + k),
                         (FirstBlock + n + 1 + 2 * (k - 1)) * BlockSize)
            IN overwrite(d2, Fill(5, 176 + k),
                         (FirstBlock + n + 2 + 2 * (k - 1)) * BlockSize)

TreeImage(inp) == TreeImageFrom(inp, 1)

\* the image read, the tree not built yet
InitTree ==
    /\ \E inp \in TreeInputs :
         /\ data = TreeImage(inp)
         /\ call = [op |-> "read", inp |-> inp]
    /\ tree = <<>>
    /\ setIter = <<>>
    /\ result = ""
    /\ latest = [p \in FilePaths |-> None]
    /\ pc = "idle"
    /\ items = <<>>
    /\ phase = Idle
    /\ ncalls = 0

GetPathTree ==
    /\ call.op = "read"
    /\ tree' = get_path_tree(data, TreePathEntries(call.inp))
    /\ call' = [op |-> "get_path_tree", inp |-> call.inp]
    /\ UNCHANGED <<data, setIter, result, latest, pc, items, phase, ncalls>>

NextTree == GetPathTree

SpecTree == InitTree /\ [][NextTree]_vars

---------------------------------------------------------------------------
(* replace_files one store mutation at a time *)

\* a clearing loop left after its first item
after_clear_early(cleared, n) == "write"

\* lines 462-465: the next item's allocation, or on to line 466
after_clear(cleared, n) == IF cleared = n THEN "write" ELSE "clear"

\* lines 467-471 and 480-484: the next item, or the return
after_update(updated, n) == IF updated = n THEN "idle" ELSE "write"

Begin ==
    /\ pc = "idle"
    /\ ncalls < MaxCalls
    /\ ncalls' = ncalls + 1
    /\ \E c \in Calls :
         \E p \in {prepare(data, tree, setIter, Replacements(c))} :
            /\ call' = c
            /\ IF ~p.ok \/ (overflows(p.val) # <<>> /\ ~c.allow_move)
               THEN /\ result' = IF ~p.ok THEN p.err ELSE "ValueError"
                    /\ UNCHANGED <<pc, items, phase>>
               ELSE /\ result' = ""
                    /\ pc' = "clear"
                    /\ items' = p.val
                    /\ phase' = Idle
    /\ UNCHANGED <<data, tree, setIter, latest>>

ClearStep ==
    /\ pc = "clear"
    /\ data' = clear_item(data, items[phase.cleared + 1])
    /\ phase' = [phase EXCEPT !.cleared = @ + 1]
    /\ pc' = after_clear(phase.cleared + 1, Len(items))
    /\ UNCHANGED <<tree, setIter, call, result, latest, items, ncalls>>

WriteStep ==
    /\ pc = "write"
    /\ \E l \in {new_lba(data, tree, setIter, items[phase.written + 1],
                         call.allow_move)} :
         IF l.ok
         THEN /\ data' = write_item(data, items[phase.written + 1], l.val)
              /\ phase' = [phase EXCEPT !.written = @ + 1, !.lba = l.val]
              /\ pc' = "toc"
              /\ UNCHANGED result
         ELSE /\ result' = l.err
              /\ pc' = "idle"
              /\ UNCHANGED <<data, phase>>
    /\ UNCHANGED <<tree, setIter, call, latest, items, ncalls>>

TocStep ==
    /\ pc = "toc"
    /\ \E r \in {update_toc(data, tree, items[phase.updated + 1].path,
                            phase.lba, items[phase.updated + 1].size)} :
         /\ data' = r.data
         /\ IF r.err = ""
            THEN /\ phase' = [phase EXCEPT !.updated = @ + 1]
                 /\ pc' = after_update(phase.updated + 1, Len(items))
                 /\ latest' = IF phase.updated + 1 = Len(items)
                              THEN Record(call, latest) ELSE latest
                 /\ UNCHANGED result
            ELSE /\ result' = r.err
                 /\ pc' = "idle"
                 /\ UNCHANGED <<phase, latest>>
    /\ UNCHANGED <<tree, setIter, call, items, ncalls>>

NextSteps == Begin \/ ClearStep \/ WriteStep \/ TocStep

SpecSteps == Init /\ [][NextSteps]_vars

---------------------------------------------------------------------------
(* What the claims speak of *)

IsReplace(c) == c.op = "replace_files"

\* the caller's paths all resolve and are listed by get_lba_list
Resolves(d, c) ==
    \A k \in 1..Len(c.replacements) :
        /\ get_lba(tree, c.replacements[k].path).ok
        /\ get_blocks_allocated(d, tree, setIter, c.replacements[k].path).ok

Needed(r) == blocks_required(r.len)
Allocated(d, r) == get_blocks_allocated(d, tree, setIter, r.path).val

\* item r needs more blocks than get_blocks_allocated reports for its path
Oversized(d, r) == Needed(r) > Allocated(d, r)

\* byte offsets at which the records of a directory table start
RECURSIVE RecordStarts(_, _)
RecordStarts(tbl, a) ==
    IF a >= Len(tbl) \/ tbl[a + 1] = 0 THEN <<>>
    ELSE <<a>> \o RecordStarts(tbl, a + tbl[a + 1])

RecordName(tbl, a) == strip(Slice(tbl, a + 33, a + 33 + tbl[a + 33]))

\* address of the first record named `name` in the table at dt_addr, or -1
FirstRecord(d, dt_addr, name) ==
    LET tbl == tbl_data(d, dt_addr)
        hits == SelectSeq(RecordStarts(tbl, 0),
                          LAMBDA a : RecordName(tbl, a) = name)
    IN IF hits = <<>> THEN -1 ELSE dt_addr + hits[1]

\* the record of path p in the directory table of its parent, as stored in d:
\* its byte address, LBA and size
RecordAddr(d, p) ==
    LET obj == get_object(tree, p).val
    IN FirstRecord(d, tree[tree[obj].parent].lba * BlockSize, tree[obj].name)

RecordLba(d, p) ==
    from_bytes_little(Read(d, RecordAddr(d, p) + 2, RecordAddr(d, p) + 6))

RecordSize(d, p) ==
    from_bytes_little(Read(d, RecordAddr(d, p) + 10, RecordAddr(d, p) + 14))

\* one call: allow_move false and an oversized item somewhere in the batch
\* give ValueError and an untouched store
C1_Step ==
    ( /\ IsReplace(call') /\ ~call'.allow_move
      /\ Resolves(data, call')
      /\ \E k \in 1..Len(call'.replacements) :
            Oversized(data, call'.replacements[k]) )
    => (result' = "ValueError" /\ data' = data)

\* C1: a replace_files call with allow_move false in which some item needs
\* more blocks than get_blocks_allocated reports fails with ValueError and
\* leaves the store exactly as it was, wherever the oversized item sits.
C1_OverflowWithoutMoveIsAtomic == [][C1_Step]_vars

\* an oversized item behind one that fits, in a failed batch
C1_Witness ==
    /\ IsReplace(call) /\ ~call.allow_move /\ result = "ValueError"
    /\ Len(call.replacements) = 2
    /\ ~Oversized(data, call.replacements[1])
    /\ Oversized(data, call.replacements[2])
    /\ \E p \in FilePaths : latest[p] # None

\* one call: a single oversized item with allow_move true, compared with
\* get_next_free_block() of the store before the call
C2_Step ==
    ( /\ IsReplace(call') /\ call'.allow_move
      /\ Len(call'.replacements) = 1
      /\ Resolves(data, call')
      /\ Oversized(data, call'.replacements[1]) )
    => LET r == call'.replacements[1]
           N == get_next_free_block(data, tree, setIter).val
           old_lba == get_lba(tree, r.path).val
           rec == RecordAddr(data', r.path)
       IN /\ result' = ""
          /\ Read(data', N * BlockSize, N * BlockSize + r.len) = Bin(r)
          /\ Read(data', old_lba * BlockSize,
                  (old_lba + Allocated(data, r)) * BlockSize)
                = Zeros(Allocated(data, r) * BlockSize)
          /\ rec # -1
          /\ Read(data', rec + 2, rec + 10) = both_endian_int(N)
          /\ Read(data', rec + 10, rec + 18) = both_endian_int(r.len)

\* C2: a replace_files call with allow_move true on one file whose new
\* content needs more blocks than its allocation stores the new bytes from
\* block N on, N being get_next_free_block() before the call, leaves every
\* block of the old allocation zero, and the file's record in its parent's
\* directory table holds LBA N and the exact new size, in both byte orders.
C2_MoveGoesToNextFreeBlock == [][C2_Step]_vars

\* a file of one block moved out by content of two blocks
C2_Witness ==
    /\ IsReplace(call) /\ call.allow_move /\ result = ""
    /\ Len(call.replacements) = 1
    /\ Oversized(data, call.replacements[1])
    /\ Allocated(data, call.replacements[1]) = 1
    /\ RecordLba(data, call.replacements[1].path)
          = get_next_free_block(data, tree, setIter).val
    /\ RecordLba(data, call.replacements[1].path)
          # get_lba(tree, call.replacements[1].path).val

\* one successful call: the directory record of every item that fits, before
\* and after
C3_Step ==
    (IsReplace(call') /\ Resolves(data, call') /\ result' = "")
    => \A k \in 1..Len(call'.replacements) :
          LET r == call'.replacements[k]
          IN ~Oversized(data, r)
             => /\ RecordLba(data', r.path) = RecordLba(data, r.path)
                /\ RecordSize(data', r.path) = r.len

\* C3: in a successful replace_files call, with allow_move false or true,
\* an item that needs no more blocks than get_blocks_allocated reports keeps
\* the LBA of its directory record, and the record's size becomes the exact
\* new length.
C3_FittingItemKeepsItsLba == [][C3_Step]_vars

\* the objects the image holds: the two directories, and the files as their
\* directory records describe them
EndBlocks(d) ==
    {RootLba + 1, DLba + 1}
    \cup {RecordLba(d, p) + blocks_required(RecordSize(d, p)) : p \in FilePaths}

\* C4: in every state reached by successful replace_files calls,
\* get_next_free_block() is at least the end block of every object stored in
\* the image, relocated files included.
C4_NextFreeBlockPastEveryObject ==
    \A e \in EndBlocks(data) :
        get_next_free_block(data, tree, setIter).val >= e

HigherLbas(lba) == {tree[k].lba : k \in 1..Len(tree)} \cap {n \in Int : n > lba}

SetMin(S) == CHOOSE x \in S : \A y \in S : x <= y

\* C5: for every file path, get_blocks_allocated is the distance to the next
\* higher LBA on disk, or ceil(size / block_size) for a file at the highest
\* LBA, also when two paths share an LBA.
C5_AllocationIsGapToNextHigherLba ==
    \A p \in FilePaths :
        LET obj == tree[get_object(tree, p).val]
            got == get_blocks_allocated(data, tree, setIter, p)
        IN /\ got.ok
           /\ got.val = IF HigherLbas(obj.lba) # {}
                        THEN SetMin(HigherLbas(obj.lba)) - obj.lba
                        ELSE blocks_required(obj.size)

\* C7: get_object, get_lba, get_blocks_allocated and replace_files give the
\* same result for a path with and without its leading slash.
C7_LeadingSlashIsOptional ==
    \A p \in FilePaths :
        /\ get_object(tree, Tail(p)) = get_object(tree, p)
        /\ get_lba(tree, Tail(p)) = get_lba(tree, p)
        /\ get_blocks_allocated(data, tree, setIter, Tail(p))
              = get_blocks_allocated(data, tree, setIter, p)
        /\ \A am \in BOOLEAN :
              replace_files(data, tree, setIter,
                            <<[path |-> Tail(p), bin |-> <<7>>]>>, am)
                 = replace_files(data, tree, setIter,
                                 <<[path |-> p, bin |-> <<7>>]>>, am)

\* C9: after successful replace_files calls, the bytes that a replaced
\* file's directory record points at are the content last supplied for it.
C9_RecordPointsAtLatestContent ==
    \A p \in FilePaths :
        latest[p] # None
        => Read(data, RecordLba(data, p) * BlockSize,
                RecordLba(data, p) * BlockSize + RecordSize(data, p))
              = Bin(latest[p])

\* the directory table and the name a directory-table rewrite is aimed at
IsRewrite(c) ==
    \/ c.op = "set_entry"
    \/ c.op = "update_toc" /\ c.path \in FilePaths \cup {PathD}

RewriteTable(c) ==
    IF c.op = "set_entry" THEN c.dt_addr
    ELSE tree[tree[get_object(tree, c.path).val].parent].lba * BlockSize

RewriteName(c) ==
    IF c.op = "set_entry" THEN c.name
    ELSE tree[get_object(tree, c.path).val].name

\* one rewrite aimed at a name the table does not hold
C6_Step ==
    ( /\ IsRewrite(call')
      /\ FirstRecord(data, RewriteTable(call'), RewriteName(call')) = -1 )
    => result' # ""

\* C6: a directory-table rewrite whose target name matches no record of the
\* table ends with an exception; it never returns normally.
C6_MissingRecordIsReported == [][C6_Step]_vars

\* once the first new content is about to be written, every item's old
\* allocation is zero in the store
OldAllocationsZero ==
    \A k \in 1..Len(items) :
        Read(data, items[k].curr_lba * BlockSize,
             (items[k].curr_lba + items[k].curr_blocks_allocated) * BlockSize)
           = Zeros(items[k].curr_blocks_allocated * BlockSize)

\* C8, as the specification words it: every old allocation is zeroed before any new content is
\* written, and every new content is written before any directory record is
\* updated.
C8_ThreePhases ==
    /\ phase.written > 0 => phase.cleared = Len(items)
    /\ phase.updated > 0 => phase.written = Len(items)

\* C8, as the code orders it: every old allocation is zeroed before any new content is
\* written; after that the items are handled one at a time in batch order,
\* each item's content written and then its own directory record updated
\* before the next item's content is written.
C8_ClearAllThenItemByItem ==
    /\ phase.written > 0 => phase.cleared = Len(items)
    /\ pc = "write" /\ phase.written = 0 => OldAllocationsZero
    /\ phase.updated <= phase.written
    /\ phase.written <= phase.updated + 1
    /\ pc = "write" => phase.written = phase.updated
    /\ pc = "toc" => phase.written = phase.updated + 1

\* the first record of a batch of two is updated and the second item's
\* content is not written yet
C8_Witness ==
    /\ pc = "write" /\ Len(items) = 2
    /\ phase.cleared = 2 /\ phase.written = 1 /\ phase.updated = 1
    /\ RecordSize(data, items[1].path) = items[1].size
    /\ RecordSize(data, items[2].path) # items[2].size

\* one rewrite: the store before and after, outside the sixteen bytes of the
\* LBA and size fields of the first matching record
C10_Step ==
    IsRewrite(call')
    => LET rec == FirstRecord(data, RewriteTable(call'), RewriteName(call'))
       IN IF rec = -1 THEN data' = data
          ELSE /\ Len(data') = Len(data)
               /\ Read(data', Base, rec + 2) = Read(data, Base, rec + 2)
               /\ Read(data', rec + 18, DataLen(data))
                     = Read(data, rec + 18, DataLen(data))

\* C10: set_entry changes bytes of the store only inside the LBA field and
\* the size field of the first record of the table whose name equals the
\* name given; the length of the store and every other byte stay, and when
\* no record matches nothing changes.
C10_SetEntryTouchesTwoFieldsOnly == [][C10_Step]_vars

\* a record that is not the first of its table took a new LBA and size
C10_Witness ==
    /\ IsRewrite(call) /\ result = ""
    /\ LET rec == FirstRecord(data, RewriteTable(call), RewriteName(call))
       IN /\ rec > RewriteTable(call)
          /\ Read(data, rec + 2, rec + 10) = both_endian_int(call.lba)
          /\ Read(data, rec + 10, rec + 18) = both_endian_int(call.size)
          /\ call.size > 65536

\* one overwrite: the store before and after
C11_Step ==
    call'.op = "overwrite"
    => LET addr == call'.addr
           end_addr == addr + Len(call'.bytes)
           old == DataLen(data)
           new == DataLen(data')
       IN /\ Read(data', addr, end_addr) = call'.bytes
          /\ Len(Read(data', addr, end_addr)) = Len(call'.bytes)
          /\ Read(data', Base, Min(addr, old)) = Read(data, Base, Min(addr, old))
          /\ Read(data', Min(end_addr, old), old)
                = Read(data, Min(end_addr, old), old)
          /\ new >= old
          /\ end_addr > old
               => /\ (new - old) % BlockSize = 0
                  /\ new >= end_addr
                  /\ new - BlockSize < end_addr
                  /\ Read(data', old, addr) = Zeros(Len(Read(data', old, addr)))
                  /\ Read(data', end_addr, new) = Zeros(new - end_addr)

\* C11: overwrite(data, addr) leaves data at [addr, addr + len(data)), keeps
\* every byte below the old length outside that range, never shortens the
\* store, and when the write ends past the old length grows the store by
\* the smallest whole number of blocks that makes the write fit, every added
\* byte outside the written range being zero.
C11_OverwriteWritesAndZeroExtends == [][C11_Step]_vars

\* a write that starts past the end of a store whose length is no multiple
\* of the block size, and needs two blocks
C11_Witness ==
    /\ call.op = "overwrite" /\ ncalls = 1
    /\ Len(call.bytes) = BlockSize + 1
    /\ Len(data) % BlockSize = 3
    /\ DataLen(data) - call.addr = 2 * BlockSize - 1
    /\ Read(data, call.addr, call.addr + BlockSize + 1) = call.bytes
    /\ Read(data, call.addr - 1, call.addr) = <<0>>

\* ordinals whose chain of parent ordinals reaches the root: the root's
\* ordinal, and n times over every ordinal whose parent is already in
RECURSIVE ReachIds(_, _, _)
ReachIds(S, ents, n) ==
    IF n = 0 THEN S
    ELSE ReachIds(S \cup {ents[k].dir_id : k \in
                            {h \in 2..Len(ents) : ents[h].parent_dir_id \in S}},
                  ents, n - 1)

FolderIdx(t, id) == {i \in 1..Len(t) : t[i].kind = "folder" /\ t[i].id = id}

\* every entry that reaches the root is one folder node, under the folder of
\* its parent ordinal
EntriesPlacedOnce(t, ents) ==
    \A k \in 2..Len(ents) :
        ents[k].dir_id \in ReachIds({ents[1].dir_id}, ents, Len(ents))
        => \E i \in 1..Len(t) :
              /\ FolderIdx(t, ents[k].dir_id) = {i}
              /\ t[i].name = ents[k].name /\ t[i].lba = ents[k].lba
              /\ t[i].parent # 0
              /\ t[t[i].parent].kind = "folder"
              /\ t[t[i].parent].id = ents[k].parent_dir_id

\* the children of folder node i: sub-folders in path-table order, then the
\* records of its directory table after the first two, in table order
ChildrenInOrder(t, ents, recs, i) ==
    LET ch == children_of(t, i)
        subs == SelectSeq(ch, LAMBDA c : t[c].kind = "folder")
        files == SelectSeq(ch, LAMBDA c : t[c].kind = "file")
        want == SelectSeq(Tail(ents), LAMBDA e : e.parent_dir_id = t[i].id)
        after == SubSeq(recs, 3, Len(recs))
    IN /\ ch = subs \o files
       /\ Len(subs) = Len(want)
       /\ \A j \in 1..Len(subs) : t[subs[j]].id = want[j].dir_id
       /\ Len(files) = Len(after)
       /\ \A j \in 1..Len(files) :
             /\ t[files[j]].name = after[j].name
             /\ t[files[j]].lba = after[j].lba
             /\ t[files[j]].size = after[j].size

\* C12: the tree built from the path-table entries with the root removed
\* holds every entry whose chain of parent ordinals reaches the root exactly
\* once, as a sub-folder of the folder with the entry's parent ordinal; the
\* sub-folders of a folder stand in path-table order before its files, which
\* follow in directory-table order without the first two records.
C12_TreeFollowsPathTable ==
    call.op = "get_path_tree"
    => LET ents == TreePathEntries(call.inp)
       IN /\ tree[1].kind = "folder" /\ tree[1].id = ents[1].dir_id
          /\ tree[1].parent = 0
          /\ EntriesPlacedOnce(tree, ents)
          /\ \A i \in 1..Len(tree) :
                tree[i].kind = "folder"
                => ChildrenInOrder(tree, ents,
                                   TreeRecords(call.inp, tree[i].id), i)

\* the second entry hangs on the third, which hangs on the root; the fourth
\* hangs on itself and is in no folder; every folder holds a file
C12_Witness ==
    /\ call.op = "get_path_tree"
    /\ call.inp = [parents |-> <<3, 1, 4>>, files |-> 1]
    /\ \E i \in 1..Len(tree) :
          /\ tree[i].kind = "folder" /\ tree[i].id = 2
          /\ tree[tree[i].parent].id = 3
          /\ tree[tree[tree[i].parent].parent].id = 1
          /\ \E f \in 1..Len(tree) :
                tree[f].kind = "file" /\ tree[f].parent = i
    /\ FolderIdx(tree, 4) = {}

====
